---- MODULE Spec2Model ----
(***************************************************************************)
(* A model of src/backend/app.py: the API-key guard, the per-client        *)
(* sliding-window rate limiter, the two process-wide metadata caches, the  *)
(* author find-or-create loop, the page builder, the ISBN selection and    *)
(* the /health, /search and /add handlers.                                 *)
(*                                                                         *)
(* A handler is a coroutine: it runs without interruption from one         *)
(* outbound HTTP call (an await that suspends) to the next, so each action *)
(* below is the code between two such calls.  A request slot's pc names    *)
(* the outbound call whose response the request is waiting for.            *)
(*                                                                         *)
(* An Optional value is a set: {} is None and {v} is the value v.          *)
(* The remote services answer every call with 200 or with an error status  *)
(* of 400 or above.                                                        *)
(***************************************************************************)
EXTENDS Integers, Sequences, FiniteSets, TLC

VARIABLES
    API_KEY,                    \* Optional[str], app.py:23
    RATE_LIMIT_PER_MIN,         \* int, app.py:24
    NOTION_TOKEN,               \* Optional[str], app.py:20
    NOTION_DATABASE_ID,         \* Optional[str], app.py:21
    NOTION_AUTHOR_DB_ID,        \* Optional[str], app.py:25
    now,                        \* time.time()
    rate_bucket,                \* _rate_bucket: ip -> list of timestamps
    database_title_prop_cache,  \* _database_title_prop_cache: database id -> property name
    database_schema_cache,      \* _database_schema_cache: database id -> schema
    remoteProps,                \* the database service: database id -> property definitions
    authorRows,                 \* the database service: the author rows, row id = position
    req,                        \* request slot -> the request's locals and its position
    accepted,                   \* history: ip -> timestamps the enabled limiter admitted
    fetches,                    \* history: <<cache, database id>> -> metadata GETs issued
    created                     \* history: the names of the author rows the service created

config == <<API_KEY, RATE_LIMIT_PER_MIN, NOTION_TOKEN, NOTION_DATABASE_ID,
            NOTION_AUTHOR_DB_ID>>
vars == <<API_KEY, RATE_LIMIT_PER_MIN, NOTION_TOKEN, NOTION_DATABASE_ID,
          NOTION_AUTHOR_DB_ID, now, rate_bucket, database_title_prop_cache,
          database_schema_cache, remoteProps, authorRows, req, accepted, fetches,
          created>>

---------------------------------------------------------------------------
(* Bounds of the model. *)

\* The clock stops advancing here.
MaxNow == 90
\* The longest authors list of a request.
MaxAuthors == 2
\* The author database refuses to create a row beyond this many.
MaxRows == 3
\* The fetch history counts up to this and then stays.
FetchCap == 2

\* The amounts by which the clock advances between two events.
TickSteps == {30, 31}
\* The request slots: the requests that can be in flight together.
Reqs == {"r1", "r2"}
\* request.client: absent, or a host.
ClientHosts == {{}, {"10.0.0.1"}}
\* The x-api-key header: absent, or a value.
SuppliedKeys == {{}, {"k1"}, {"k2"}}
\* Author display names.
Names == {"A", "B"}
\* Status codes of the database service and of the catalog service.
NotionStatuses == {200, 500}
CatalogStatuses == {200, 503}
\* Ids the database service gives to created book pages.
PageIds == {"p1", "p2"}

---------------------------------------------------------------------------
(* Program constants. *)

WindowSeconds == 60
AUTHOR_RELATION_PROPERTY_NAME == "Author"
DefaultTitleProperty == "Name"

None == {}
Some(v) == {v}
\* The value of an Optional that is not None.
The(o) == CHOOSE v \in o : TRUE
\* Python truthiness of an Optional[str].
Truthy(o) == o # {} /\ o # {""}

Min(a, b) == IF a < b THEN a ELSE b

\* dict.get on a dict modelled as a function: the Optional of the entry.
Get(d, k) == IF k \in DOMAIN d THEN {d[k]} ELSE {}
\* d[k] = v
Put(d, k, v) == [x \in DOMAIN d \cup {k} |-> IF x = k THEN v ELSE d[x]]

---------------------------------------------------------------------------
(* _require_api_key *)

\* A guard that lets a request without the header through.
RequireKeyAllowAbsent(supplied) ==
    IF ~Truthy(API_KEY) THEN TRUE
    ELSE supplied = None \/ supplied = API_KEY

\* TRUE when the guard returns, FALSE when it raises 401.
require_api_key(supplied) ==
    IF ~Truthy(API_KEY) THEN TRUE
    ELSE supplied = API_KEY

---------------------------------------------------------------------------
(* _rate_limit *)

\* ip = request.client.host if request.client else "unknown"
ClientIp(client) == IF client = None THEN "unknown" ELSE The(client)

\* hits = _rate_bucket.setdefault(ip, [])
Hits(ip) == IF ip \in DOMAIN rate_bucket THEN rate_bucket[ip] ELSE <<>>

\* A limiter that never evicts.
EvictNothing(hits, window_start) == hits

\* while hits and hits[0] < window_start: hits.pop(0)
RECURSIVE Evict(_, _)
Evict(hits, window_start) ==
    IF hits # <<>> /\ Head(hits) < window_start
    THEN Evict(Tail(hits), window_start)
    ELSE hits

\* A limiter that compares with > and admits one request too many.
OverLimitOffByOne(hits) == Len(hits) > RATE_LIMIT_PER_MIN

\* if len(hits) >= RATE_LIMIT_PER_MIN
OverLimit(hits) == Len(hits) >= RATE_LIMIT_PER_MIN

\* A limiter that records the request before it decides.
RecordedAlways(hits, rejected) == Append(hits, now)

\* raise without recording, or hits.append(now)
Recorded(hits, rejected) == IF rejected THEN hits ELSE Append(hits, now)

\* TRUE when _rate_limit raises 429 for ip.
RateLimited(ip) ==
    /\ RATE_LIMIT_PER_MIN > 0
    /\ OverLimit(Evict(Hits(ip), now - WindowSeconds))

\* _rate_bucket after _rate_limit ran for ip.
rate_limit(ip) ==
    IF RATE_LIMIT_PER_MIN <= 0 THEN rate_bucket
    ELSE LET kept == Evict(Hits(ip), now - WindowSeconds)
         IN  Put(rate_bucket, ip, Recorded(kept, OverLimit(kept)))

\* History: the admitted timestamps of ip after _rate_limit ran for it.
Admit(ip) ==
    IF RATE_LIMIT_PER_MIN > 0 /\ ~RateLimited(ip)
    THEN [accepted EXCEPT ![ip] = Append(@, now)]
    ELSE accepted

\* History: how many of the timestamps in h lie in the window [t - 60, t].
RECURSIVE InWindow(_, _)
InWindow(h, t) ==
    IF h = <<>> THEN 0
    ELSE (IF Head(h) >= t - WindowSeconds /\ Head(h) <= t THEN 1 ELSE 0)
         + InWindow(Tail(h), t)

---------------------------------------------------------------------------
(* The database service's metadata, and the two caches. *)

\* schema = {prop_name: prop.get("type", "") for prop_name, prop in properties.items()}
SchemaOf(properties) ==
    [n \in {properties[i].name : i \in DOMAIN properties} |->
        LET last == CHOOSE i \in DOMAIN properties :
                        /\ properties[i].name = n
                        /\ \A j \in DOMAIN properties :
                               properties[j].name = n => j <= i
        IN  properties[last].type]

\* for prop_name, prop in properties.items(): if prop.get("type") == "title"
RECURSIVE TitleOf(_)
TitleOf(properties) ==
    IF properties = <<>> THEN None
    ELSE IF Head(properties).type = "title" THEN Some(Head(properties).name)
    ELSE TitleOf(Tail(properties))

\* What _get_database_schema returns for a response with this status.
FetchedSchema(database_id, status) ==
    IF status >= 400 THEN <<>> ELSE SchemaOf(remoteProps[database_id])

\* A schema cache that keeps nothing of a failed fetch.
SchemaCacheSkipFailure(database_id, status) ==
    IF status >= 400 THEN database_schema_cache
    ELSE Put(database_schema_cache, database_id, SchemaOf(remoteProps[database_id]))

\* _database_schema_cache after _get_database_schema took the response.
SchemaCacheAfter(database_id, status) ==
    Put(database_schema_cache, database_id, FetchedSchema(database_id, status))

\* What _get_database_title_property_name returns for a response with this status.
FetchedTitle(database_id, status) ==
    IF status >= 400 THEN None ELSE TitleOf(remoteProps[database_id])

\* A title lookup that caches the first property whatever its type.
TitleCacheAnyType(database_id, status) ==
    IF status >= 400 \/ remoteProps[database_id] = <<>> THEN database_title_prop_cache
    ELSE Put(database_title_prop_cache, database_id, Head(remoteProps[database_id]).name)

\* _database_title_prop_cache after _get_database_title_property_name took the response.
TitleCacheAfter(database_id, status) ==
    LET found == FetchedTitle(database_id, status)
    IN  IF found = None THEN database_title_prop_cache
        ELSE Put(database_title_prop_cache, database_id, The(found))

\* cached = _database_schema_cache.get(database_id); if cached is not None
SchemaCached(cache, database_id) == Get(cache, database_id) # None

\* A title lookup that never finds its cache entry.
TitleCachedNever(cache, database_id) == FALSE

\* cached = _database_title_prop_cache.get(database_id); if cached
TitleCached(cache, database_id) == Truthy(Get(cache, database_id))

---------------------------------------------------------------------------
(* _build_book_page_payload and its setters.  A properties dict is a       *)
(* function from property names; a property value is the record the code   *)
(* writes, with the one field named by its type.  The published date and   *)
(* the description are sequences of one-character strings.                 *)

SummaryLimit == 1800
SummaryKeep == 1797

Digits == {"0", "1", "2", "3", "4", "5", "6", "7", "8", "9"}
Whitespace == {" ", "\t", "\n", "\r"}

\* str.strip()
RECURSIVE LStrip(_)
LStrip(s) == IF s # <<>> /\ Head(s) \in Whitespace THEN LStrip(Tail(s)) ELSE s
RECURSIVE RStrip(_)
RStrip(s) ==
    IF s # <<>> /\ s[Len(s)] \in Whitespace THEN RStrip(SubSeq(s, 1, Len(s) - 1)) ELSE s
Strip(s) == RStrip(LStrip(s))

AllDigits(s, from, to) == \A i \in from..to : s[i] \in Digits

\* A normaliser that takes every string for a full date.
ToDateStartUnchecked(raw) == Some(Strip(raw))

\* _to_notion_date_start: the Optional start date
to_notion_date_start(raw) ==
    LET value == Strip(raw)
    IN  IF Len(value) = 4 /\ AllDigits(value, 1, 4)
        THEN Some(value \o <<"-", "0", "1", "-", "0", "1">>)
        ELSE IF /\ Len(value) = 7 /\ AllDigits(value, 1, 4) /\ value[5] = "-"
                /\ AllDigits(value, 6, 7)
        THEN Some(value \o <<"-", "0", "1">>)
        ELSE IF /\ Len(value) = 10 /\ AllDigits(value, 1, 4) /\ value[5] = "-"
                /\ AllDigits(value, 6, 7) /\ value[8] = "-" /\ AllDigits(value, 9, 10)
        THEN Some(value)
        ELSE None

\* Python truthiness of an Optional sequence (a string of characters, a list).
TruthySeq(o) == o # {} /\ o # {<<>>}

\* A setter that writes the property without looking at the schema.
SetRichTextUnchecked(properties, schema, name, value) ==
    IF ~Truthy(value) THEN properties
    ELSE Put(properties, name, [rich_text |-> The(value)])

\* _set_rich_text for a value held as a string
set_rich_text(properties, schema, name, value) ==
    IF ~Truthy(value) THEN properties
    ELSE IF Get(schema, name) # Some("rich_text") THEN properties
    ELSE Put(properties, name, [rich_text |-> The(value)])

\* _set_rich_text for a value held as a sequence of characters
set_rich_chars(properties, schema, name, value) ==
    IF ~TruthySeq(value) THEN properties
    ELSE IF Get(schema, name) # Some("rich_text") THEN properties
    ELSE Put(properties, name, [rich_text |-> The(value)])

\* _set_date
set_date(properties, schema, name, value) ==
    IF ~TruthySeq(value) THEN properties
    ELSE IF Get(schema, name) # Some("date") THEN properties
    ELSE LET start == to_notion_date_start(The(value))
         IN  IF ~TruthySeq(start) THEN properties
             ELSE Put(properties, name, [date |-> The(start)])

\* _set_multi_select
set_multi_select(properties, schema, name, values) ==
    LET kept == SelectSeq(values, LAMBDA v : v # "")
    IN  IF kept = <<>> THEN properties
        ELSE IF Get(schema, name) # Some("multi_select") THEN properties
        ELSE Put(properties, name, [multi_select |-> kept])

\* _set_number
set_number(properties, schema, name, value) ==
    IF value = None THEN properties
    ELSE IF Get(schema, name) # Some("number") THEN properties
    ELSE Put(properties, name, [number |-> The(value)])

\* A builder that also cuts a description of exactly the limit.
SummaryCutAtLimit(description) ==
    IF ~TruthySeq(description) THEN description
    ELSE LET stripped == Strip(The(description))
         IN  IF Len(stripped) >= SummaryLimit
             THEN Some(SubSeq(stripped, 1, SummaryKeep) \o <<".", ".", ".">>)
             ELSE Some(stripped)

\* The description after lines 237-241.
Summary(description) ==
    IF ~TruthySeq(description) THEN description
    ELSE LET stripped == Strip(The(description))
         IN  IF Len(stripped) > SummaryLimit
             THEN Some(SubSeq(stripped, 1, SummaryKeep) \o <<".", ".", ".">>)
             ELSE Some(stripped)

\* _build_book_page_payload: the properties and the Optional cover
build_book_page_payload(payload, schema, title_prop) ==
    LET p0 == Put(<<>>, title_prop, [title |-> payload.title])
        p1 == set_rich_chars(p0, schema, "Summary", Summary(payload.description))
        p2 == set_rich_text(p1, schema, "Genre", payload.mainCategory)
        p3 == set_multi_select(p2, schema, "Tropes", payload.categories)
        p4 == set_date(p3, schema, "Publication Date", payload.published)
        p5 == set_rich_chars(p4, schema, "Publication Date", payload.published)
        p6 == set_rich_text(p5, schema, "ISBN", payload.isbn)
        p7 == set_rich_text(p6, schema, "Google Books ID", payload.google_books_id)
        p8 == set_rich_text(p7, schema, "Publisher", payload.publisher)
        p9 == set_number(p8, schema, "Total Pages", payload.page_count)
    IN  [properties |-> p9,
         cover |-> IF Truthy(payload.cover_url) THEN payload.cover_url ELSE None]

\* AddBookPayload with only the required title and the authors set.
Book(title, authors) ==
    [title |-> title, authors |-> authors, isbn |-> None, published |-> None,
     cover_url |-> None, google_books_id |-> None, mainCategory |-> None,
     categories |-> <<>>, page_count |-> None, description |-> None,
     publisher |-> None, notes |-> None]

---------------------------------------------------------------------------
(* _best_isbn and _normalize_google_book.  An identifier is the record of   *)
(* what item.get("type") and item.get("identifier") give, each an Optional. *)

\* The first entry of the given type, as a list of one, or the empty list.
RECURSIVE FirstOfType(_, _)
FirstOfType(identifiers, kind) ==
    IF identifiers = <<>> THEN <<>>
    ELSE IF Head(identifiers).type = Some(kind) THEN <<Head(identifiers)>>
    ELSE FirstOfType(Tail(identifiers), kind)

\* A selection that takes the first entry tagged as either kind of ISBN.
BestIsbnFirstTagged(identifiers) ==
    LET tagged == SelectSeq(identifiers,
                            LAMBDA e : e.type \in {Some("ISBN_13"), Some("ISBN_10")})
    IN  IF identifiers = <<>> THEN None
        ELSE IF tagged # <<>> THEN tagged[1].identifier
        ELSE identifiers[1].identifier

\* _best_isbn: the Optional identifier
best_isbn(identifiers) ==
    IF identifiers = <<>> THEN None
    ELSE IF FirstOfType(identifiers, "ISBN_13") # <<>>
    THEN FirstOfType(identifiers, "ISBN_13")[1].identifier
    ELSE IF FirstOfType(identifiers, "ISBN_10") # <<>>
    THEN FirstOfType(identifiers, "ISBN_10")[1].identifier
    ELSE identifiers[1].identifier

\* _normalize_google_book, of which the isbn is modelled: an item is the
\* Optional list info.get("industryIdentifiers"), and `or []` makes an absent
\* list the empty one.
normalize_google_book(item) ==
    [isbn |-> best_isbn(IF item = None THEN <<>> ELSE The(item))]

---------------------------------------------------------------------------
(* A request's locals.  calls is the request's outbound calls in the order *)
(* issued: the kind of call, the function that issued it (by), the         *)
(* database id or author name it is about (arg), the title property it     *)
(* names (prop), and the status and result of its response (status 0: the  *)
(* response has not arrived).  t, seen and prev are history: when the      *)
(* request arrived, and how many admitted timestamps of its client lay in  *)
(* the window and which was the latest, before the limiter ran.            *)

\* The payload slot of a request that carries no book.
NoBook == Book("", <<>>)

IdleReq ==
    [pc |-> "idle", endpoint |-> "none", ip |-> "", supplied |-> None, t |-> 0,
     seen |-> 0, prev |-> None, payload |-> NoBook, schema |-> <<>>, title_prop |-> "",
     page_payload |-> [properties |-> <<>>, cover |-> None],
     author_title |-> "", idx |-> 0, author_ids |-> <<>>, calls |-> <<>>,
     status |-> 0, notion_id |-> None, results |-> <<>>]

\* client.get / client.post: the call goes out and the coroutine waits at pc.
Issue(q, pc, kind, by, arg, prop) ==
    [q EXCEPT !.pc = pc,
              !.calls = Append(@, [kind |-> kind, by |-> by, arg |-> arg,
                                   prop |-> prop, status |-> 0, result |-> <<>>])]

\* The response to the call the request waits for arrives.
Respond(q, status, result) ==
    [q EXCEPT !.calls[Len(q.calls)] = [@ EXCEPT !.status = status, !.result = result]]

\* The handler returns, or raises HTTPException(status).
Finish(q, status) == [q EXCEPT !.pc = "done", !.status = status]

\* add_book line 362: the page-create POST
IssuePage(q) == Issue(q, "page_create", "PAGE", "add_book", The(NOTION_DATABASE_ID), "")

\* _attach_author_relations lines 267-270, with what _get_or_create_author_ids returned
Attach(q, author_ids) ==
    IssuePage([q EXCEPT
        !.author_ids = author_ids,
        !.page_payload.properties =
            IF author_ids # <<>>
            THEN Put(@, AUTHOR_RELATION_PROPERTY_NAME, [relation |-> author_ids])
            ELSE @])

\* _get_or_create_author_ids line 285: the next name's query, or return author_ids
AuthorLoop(q) ==
    IF q.idx > Len(q.payload.authors) THEN Attach(q, q.author_ids)
    ELSE Issue(q, "query", "QUERY", "authors", q.payload.authors[q.idx], q.author_title)

\* _get_or_create_author_ids lines 274-283, up to the first call it awaits
get_or_create_author_ids(q, title_cache) ==
    LET db == The(NOTION_AUTHOR_DB_ID)
    IN  IF TitleCached(title_cache, db)
        THEN AuthorLoop([q EXCEPT !.author_title = title_cache[db], !.idx = 1,
                                  !.author_ids = <<>>])
        ELSE Issue(q, "get_author_title", "GET", "title", db, "")

\* add_book lines 357-358, with title_prop resolved
BuildAndAttach(q, title_cache) ==
    LET q1 == [q EXCEPT !.page_payload =
                   build_book_page_payload(q.payload, q.schema, q.title_prop)]
    IN  IF ~Truthy(NOTION_AUTHOR_DB_ID) \/ q.payload.authors = <<>>
        THEN IssuePage(q1)
        ELSE get_or_create_author_ids(q1, title_cache)

\* add_book line 356: the cached title property, or the GET for it
ResolveTitle(q, title_cache) ==
    LET db == The(NOTION_DATABASE_ID)
    IN  IF TitleCached(title_cache, db)
        THEN BuildAndAttach([q EXCEPT !.title_prop = title_cache[db]], title_cache)
        ELSE Issue(q, "get_title", "GET", "title", db, "")

\* add_book line 355: the cached schema, or the GET for it
ResolveSchema(q, schema_cache, title_cache) ==
    LET db == The(NOTION_DATABASE_ID)
    IN  IF SchemaCached(schema_cache, db)
        THEN ResolveTitle([q EXCEPT !.schema = schema_cache[db]], title_cache)
        ELSE Issue(q, "get_schema", "GET", "schema", db, "")

\* History: the metadata GETs issued, after the request moved to q.
Fetched(q) ==
    LET key == IF q.pc = "get_schema" THEN {<<"schema", The(NOTION_DATABASE_ID)>>}
               ELSE IF q.pc = "get_title" THEN {<<"title", The(NOTION_DATABASE_ID)>>}
               ELSE IF q.pc = "get_author_title"
               THEN {<<"title", The(NOTION_AUTHOR_DB_ID)>>}
               ELSE {}
    IN  [k \in DOMAIN fetches |->
            IF k \in key THEN Min(fetches[k] + 1, FetchCap) ELSE fetches[k]]

\* The author rows a query for this name matches, as row ids.
Matches(name) == {i \in DOMAIN authorRows : authorRows[i] = name}

\* The orders in which the database service may list a set of row ids.
Orders(ids) ==
    {s \in [1..Cardinality(ids) -> ids] : \A i, j \in DOMAIN s : i # j => s[i] # s[j]}

---------------------------------------------------------------------------
(* The code that runs when a response arrives, up to the next call. *)

\* A handler that gives up when the schema fetch failed.
AfterSchemaRaise(q, status) ==
    IF status >= 400 THEN Finish(Respond(q, status, <<>>), 502)
    ELSE ResolveTitle([Respond(q, status, <<>>) EXCEPT
                          !.schema = FetchedSchema(The(NOTION_DATABASE_ID), status)],
                      database_title_prop_cache)

\* _get_database_schema lines 109-117, then add_book line 356
AfterSchema(q, status) ==
    LET db == The(NOTION_DATABASE_ID)
    IN  ResolveTitle([Respond(q, status, <<>>) EXCEPT
                         !.schema = FetchedSchema(db, status)],
                     database_title_prop_cache)

\* _get_database_title_property_name lines 91-100 for the target database,
\* then `or "Name"` and add_book lines 357-358
AfterTitle(q, status) ==
    LET db == The(NOTION_DATABASE_ID)
        found == FetchedTitle(db, status)
    IN  BuildAndAttach([Respond(q, status, <<>>) EXCEPT
                           !.title_prop = IF Truthy(found) THEN The(found)
                                          ELSE DefaultTitleProperty],
                       TitleCacheAfter(db, status))

\* _get_database_title_property_name lines 91-100 for the author database,
\* then _get_or_create_author_ids lines 281-285
AfterAuthorTitle(q, status) ==
    LET found == FetchedTitle(The(NOTION_AUTHOR_DB_ID), status)
        q1 == Respond(q, status, <<>>)
    IN  IF ~Truthy(found) THEN Attach(q1, <<>>)
        ELSE AuthorLoop([q1 EXCEPT !.author_title = The(found), !.idx = 1,
                                   !.author_ids = <<>>])

\* A loop that goes on to create the row when the query failed.
AfterQueryCreateOnError(q, status, results) ==
    LET q1 == Respond(q, status, results)
    IN  IF status < 400 /\ results # <<>>
        THEN AuthorLoop([q1 EXCEPT !.author_ids = Append(@, results[1]),
                                   !.idx = @ + 1])
        ELSE Issue(q1, "create", "CREATE", "authors", q.payload.authors[q.idx],
                   q.author_title)

\* A loop that takes the last match of a query.
AfterQueryLastMatch(q, status, results) ==
    LET q1 == Respond(q, status, results)
    IN  IF status >= 400 THEN AuthorLoop([q1 EXCEPT !.idx = @ + 1])
        ELSE IF results # <<>>
        THEN AuthorLoop([q1 EXCEPT !.author_ids = Append(@, results[Len(results)]),
                                   !.idx = @ + 1])
        ELSE Issue(q1, "create", "CREATE", "authors", q.payload.authors[q.idx],
                   q.author_title)

\* A loop that creates a row whether or not the query found one.
AfterQueryIgnoreMatch(q, status, results) ==
    LET q1 == Respond(q, status, results)
    IN  IF status >= 400 THEN AuthorLoop([q1 EXCEPT !.idx = @ + 1])
        ELSE Issue(q1, "create", "CREATE", "authors", q.payload.authors[q.idx],
                   q.author_title)

\* _get_or_create_author_ids lines 294-309: the query's response
AfterQuery(q, status, results) ==
    LET q1 == Respond(q, status, results)
    IN  IF status >= 400 THEN AuthorLoop([q1 EXCEPT !.idx = @ + 1])
        ELSE IF results # <<>>
        THEN AuthorLoop([q1 EXCEPT !.author_ids = Append(@, results[1]),
                                   !.idx = @ + 1])
        ELSE Issue(q1, "create", "CREATE", "authors", q.payload.authors[q.idx],
                   q.author_title)

\* A loop that sends the create again when it failed.
AfterCreateRetry(q, status, id) ==
    IF status >= 400
    THEN Issue(Respond(q, status, <<>>), "create", "CREATE", "authors",
               q.payload.authors[q.idx], q.author_title)
    ELSE AuthorLoop([Respond(q, status, <<id>>) EXCEPT
                        !.author_ids = Append(@, id), !.idx = @ + 1])

\* A loop that returns what it has when a create failed.
AfterCreateAbortOnError(q, status, id) ==
    IF status >= 400 THEN Attach(Respond(q, status, <<>>), q.author_ids)
    ELSE AuthorLoop([Respond(q, status, <<id>>) EXCEPT
                        !.author_ids = Append(@, id), !.idx = @ + 1])

\* _get_or_create_author_ids lines 310-313: the create's response
AfterCreate(q, status, id) ==
    IF status >= 400 THEN AuthorLoop([Respond(q, status, <<>>) EXCEPT !.idx = @ + 1])
    ELSE AuthorLoop([Respond(q, status, <<id>>) EXCEPT
                        !.author_ids = Append(@, id), !.idx = @ + 1])

\* A handler that does not look at the page-create status.
AfterPageUnchecked(q, status, id) ==
    Finish([Respond(q, status, <<id>>) EXCEPT !.notion_id = Some(id)], 200)

\* add_book lines 364-368
AfterPage(q, status, id) ==
    IF status >= 400 THEN Finish(Respond(q, status, <<>>), 502)
    ELSE Finish([Respond(q, status, <<id>>) EXCEPT !.notion_id = Some(id)], 200)

\* search_books lines 337-344: items is the "items" of the response
AfterCatalog(q, status, items) ==
    IF status # 200 THEN Finish(Respond(q, status, <<>>), 502)
    ELSE Finish([Respond(q, status, items) EXCEPT
                    !.results = [i \in DOMAIN items |-> normalize_google_book(items[i])]],
                200)

\* add_book lines 351-355, after the guard and the limiter let the request in
AddBody(q) ==
    IF ~Truthy(NOTION_TOKEN) \/ ~Truthy(NOTION_DATABASE_ID) THEN Finish(q, 500)
    ELSE ResolveSchema(q, database_schema_cache, database_title_prop_cache)

\* search_books lines 327-335
SearchBody(q) == Issue(q, "catalog", "CATALOG", "search_books", "", "")

---------------------------------------------------------------------------
(* The actions. *)

\* A handler that runs the limiter before the guard.
ArriveLimiterFirst(r, endpoint, client, supplied, payload) ==
    LET ip == ClientIp(client)
        q == [IdleReq EXCEPT !.endpoint = endpoint, !.ip = ip,
                             !.supplied = supplied, !.t = now,
                             !.seen = InWindow(accepted[ip], now),
                             !.prev = IF accepted[ip] = <<>> THEN None
                                      ELSE Some(accepted[ip][Len(accepted[ip])]),
                             !.payload = payload]
    IN  /\ req[r].pc \in {"idle", "done"}
        /\ rate_bucket' = rate_limit(ip)
        /\ accepted' = Admit(ip)
        /\ req' = [req EXCEPT ![r] =
                      IF RateLimited(ip) THEN Finish(q, 429)
                      ELSE IF ~require_api_key(supplied) THEN Finish(q, 401)
                      ELSE IF endpoint = "add" THEN AddBody(q)
                      ELSE SearchBody(q)]
        /\ fetches' = Fetched(req'[r])
        /\ UNCHANGED <<config, created, now, database_title_prop_cache,
                       database_schema_cache, remoteProps, authorRows>>

\* A request arrives in slot r: _require_api_key, _rate_limit, then the body.
Arrive(r, endpoint, client, supplied, payload) ==
    LET ip == ClientIp(client)
        q == [IdleReq EXCEPT !.endpoint = endpoint, !.ip = ip,
                             !.supplied = supplied, !.t = now,
                             !.seen = InWindow(accepted[ip], now),
                             !.prev = IF accepted[ip] = <<>> THEN None
                                      ELSE Some(accepted[ip][Len(accepted[ip])]),
                             !.payload = payload]
    IN  /\ req[r].pc \in {"idle", "done"}
        /\ IF ~require_api_key(supplied)
           THEN /\ req' = [req EXCEPT ![r] = Finish(q, 401)]
                /\ UNCHANGED <<rate_bucket, accepted, fetches>>
           ELSE /\ rate_bucket' = rate_limit(ip)
                /\ accepted' = Admit(ip)
                /\ req' = [req EXCEPT ![r] =
                              IF RateLimited(ip) THEN Finish(q, 429)
                              ELSE IF endpoint = "add" THEN AddBody(q)
                              ELSE SearchBody(q)]
                /\ fetches' = Fetched(req'[r])
        /\ UNCHANGED <<config, created, now, database_title_prop_cache,
                       database_schema_cache, remoteProps, authorRows>>

\* POST /add
AddStart(r, client, supplied, payload) == Arrive(r, "add", client, supplied, payload)

\* GET /search
SearchStart(r, client, supplied) == Arrive(r, "search", client, supplied, NoBook)

\* GET /health: no guard, no limiter.
Health(r) ==
    /\ req[r].pc \in {"idle", "done"}
    /\ req' = [req EXCEPT ![r] = Finish([IdleReq EXCEPT !.endpoint = "health"], 200)]
    /\ UNCHANGED <<config, created, now, rate_bucket, database_title_prop_cache,
                   database_schema_cache, remoteProps, authorRows, accepted, fetches>>

\* The catalog service answers: an error, or one of the given lists of items.
SearchResponse(r, status, itemlists) ==
    /\ req[r].pc = "catalog"
    /\ \E items \in IF status = 200 THEN itemlists ELSE {<<>>} :
           req' = [req EXCEPT ![r] = AfterCatalog(@, status, items)]
    /\ UNCHANGED <<config, created, now, rate_bucket, database_title_prop_cache,
                   database_schema_cache, remoteProps, authorRows, accepted, fetches>>

\* The database service answers the GET of _get_database_schema.
SchemaResponse(r, status) ==
    /\ req[r].pc = "get_schema"
    /\ database_schema_cache' = SchemaCacheAfter(The(NOTION_DATABASE_ID), status)
    /\ req' = [req EXCEPT ![r] = AfterSchema(@, status)]
    /\ fetches' = Fetched(req'[r])
    /\ UNCHANGED <<config, created, now, rate_bucket, database_title_prop_cache,
                   remoteProps, authorRows, accepted>>

\* The database service answers the GET of _get_database_title_property_name
\* for the target database.
TitleResponse(r, status) ==
    /\ req[r].pc = "get_title"
    /\ database_title_prop_cache' = TitleCacheAfter(The(NOTION_DATABASE_ID), status)
    /\ req' = [req EXCEPT ![r] = AfterTitle(@, status)]
    /\ fetches' = Fetched(req'[r])
    /\ UNCHANGED <<config, created, now, rate_bucket, database_schema_cache,
                   remoteProps, authorRows, accepted>>

\* The database service answers the GET of _get_database_title_property_name
\* for the author database.
AuthorTitleResponse(r, status) ==
    /\ req[r].pc = "get_author_title"
    /\ database_title_prop_cache' = TitleCacheAfter(The(NOTION_AUTHOR_DB_ID), status)
    /\ req' = [req EXCEPT ![r] = AfterAuthorTitle(@, status)]
    /\ UNCHANGED <<config, created, now, rate_bucket, database_schema_cache,
                   remoteProps, authorRows, accepted, fetches>>

\* The database service answers an author query: an error, or the matching
\* rows in some order.
QueryResponse(r, status) ==
    /\ req[r].pc = "query"
    /\ \E results \in IF status >= 400 THEN {<<>>}
                      ELSE Orders(Matches(req[r].payload.authors[req[r].idx])) :
           req' = [req EXCEPT ![r] = AfterQuery(@, status, results)]
    /\ UNCHANGED <<config, created, now, rate_bucket, database_title_prop_cache,
                   database_schema_cache, remoteProps, authorRows, accepted, fetches>>

\* The database service answers an author create: an error, or the new row.
CreateResponse(r, status) ==
    /\ req[r].pc = "create"
    /\ status < 400 => Len(authorRows) < MaxRows
    /\ authorRows' = IF status >= 400 THEN authorRows
                     ELSE Append(authorRows, req[r].payload.authors[req[r].idx])
    /\ req' = [req EXCEPT ![r] = AfterCreate(@, status, Len(authorRows) + 1)]
    /\ created' = IF status >= 400 THEN created
                  ELSE Append(created, req[r].payload.authors[req[r].idx])
    /\ UNCHANGED <<config, now, rate_bucket, database_title_prop_cache,
                   database_schema_cache, remoteProps, accepted, fetches>>

\* The database service answers the page-create POST.
PageResponse(r, status, id) ==
    /\ req[r].pc = "page_create"
    /\ req' = [req EXCEPT ![r] = AfterPage(@, status, id)]
    /\ UNCHANGED <<config, created, now, rate_bucket, database_title_prop_cache,
                   database_schema_cache, remoteProps, authorRows, accepted, fetches>>

\* Time passes.
Tick(d) ==
    /\ now + d <= MaxNow
    /\ now' = now + d
    /\ UNCHANGED <<config, created, rate_bucket, database_title_prop_cache,
                   database_schema_cache, remoteProps, authorRows, req, accepted,
                   fetches>>

---------------------------------------------------------------------------
(* The inputs and the initial states. *)

Ips == {ClientIp(c) : c \in ClientHosts}
DbIds == {"db1", "adb1"}
FetchKeys == {"schema", "title"} \X DbIds

\* The authors lists of the requests: every list of at most MaxAuthors names.
AuthorLists == UNION {[1..n -> Names] : n \in 0..MaxAuthors}
\* The catalog finds nothing.
NoItems == {<<>>}

\* The book with a title and nothing else.
PlainBook == Book("Dune", <<>>)
\* A book with a main category and no authors.
GenreBook == [PlainBook EXCEPT !.mainCategory = Some("Fiction")]
Books == {Book("Dune", a) : a \in AuthorLists} \cup {GenreBook}

\* The property definitions the target database may have: with a title
\* property, or without one.
TitledProps ==
    {<<[name |-> "Title", type |-> "title"], [name |-> "Genre", type |-> "rich_text"]>>}
TargetProps == TitledProps \cup {<<[name |-> "Genre", type |-> "rich_text"]>>}
\* The property definitions the author database may have.
AuthorProps ==
    {<<[name |-> "Name", type |-> "title"]>>,
     <<[name |-> "Bio", type |-> "rich_text"]>>}
\* The rows the author database may hold at the start.
InitialRows == {<<>>, <<"A", "A">>}

InitWith(keys, limits, tokens, targets, authordbs, targetprops, authorprops, rows) ==
    /\ API_KEY \in keys
    /\ RATE_LIMIT_PER_MIN \in limits
    /\ NOTION_TOKEN \in tokens
    /\ NOTION_DATABASE_ID \in targets
    /\ NOTION_AUTHOR_DB_ID \in authordbs
    /\ now = 0
    /\ rate_bucket = <<>>
    /\ database_title_prop_cache = <<>>
    /\ database_schema_cache = <<>>
    /\ \E tp \in targetprops, ap \in authorprops :
           remoteProps = [d \in DbIds |-> IF d = "db1" THEN tp ELSE ap]
    /\ authorRows \in rows
    /\ req = [r \in Reqs |-> IdleReq]
    /\ accepted = [ip \in Ips |-> <<>>]
    /\ fetches = [k \in FetchKeys |-> 0]
    /\ created = <<>>

\* The deployments of the /add pipeline: with an author database, against a
\* target database that has a title property; or without one, against either
\* target database.  The clock stands still, so a limit of 1 admits one
\* request and a limit of 0 (limiter off) admits all.
Init ==
    \/ InitWith({Some("k1")}, {0}, {Some("tok")}, {Some("db1")}, {Some("adb1")},
                TitledProps, AuthorProps, InitialRows)
    \/ InitWith({None, Some("k1")}, {0, 1}, {None, Some("tok")}, {None, Some("db1")},
                {None}, TargetProps, {<<>>}, {<<>>})

\* Requests are handled one at a time: one slot, one client.
Next ==
    \/ \E k \in {None, Some("k1")}, b \in Books : AddStart("r1", None, k, b)
    \/ \E k \in {None, Some("k1")} : SearchStart("r1", None, k)
    \/ Health("r1")
    \/ \E s \in CatalogStatuses : SearchResponse("r1", s, NoItems)
    \/ \E s \in NotionStatuses : SchemaResponse("r1", s)
    \/ \E s \in NotionStatuses : TitleResponse("r1", s)
    \/ \E s \in NotionStatuses : AuthorTitleResponse("r1", s)
    \/ \E s \in NotionStatuses : QueryResponse("r1", s)
    \/ \E s \in NotionStatuses : CreateResponse("r1", s)
    \/ \E s \in NotionStatuses, id \in PageIds : PageResponse("r1", s, id)

Spec == Init /\ [][Next]_vars

---------------------------------------------------------------------------
(* The guard and the limiter under a moving clock: requests from two       *)
(* clients, one after the other, against a deployment without database     *)
(* credentials, where /add ends right after the limiter.                   *)

InitRate ==
    \/ InitWith({None, Some(""), Some("k1")}, {1}, {None}, {None}, {None},
                {<<>>}, {<<>>}, {<<>>})
    \/ InitWith({Some("k1")}, {-1, 0, 2}, {None}, {None}, {None},
                {<<>>}, {<<>>}, {<<>>})

NextRate ==
    \/ \E c \in ClientHosts, k \in SuppliedKeys : AddStart("r1", c, k, PlainBook)
    \/ \E c \in ClientHosts, k \in SuppliedKeys : SearchStart("r1", c, k)
    \/ Health("r1")
    \/ \E s \in CatalogStatuses : SearchResponse("r1", s, NoItems)
    \/ \E d \in TickSteps : Tick(d)

SpecRate == InitRate /\ [][NextRate]_vars

---------------------------------------------------------------------------
(* Two /add requests in flight together, interleaved at their outbound      *)
(* calls: the coroutines of one event loop.  The clock stands still, so the *)
(* limiter admits as many requests as the limit.                            *)

\* A book with one author.
AuthorBook == Book("Dune", <<"A">>)

InitConc ==
    InitWith({None}, {2}, {Some("tok")}, {Some("db1")}, {Some("adb1")},
             TargetProps, AuthorProps, {<<>>})

NextConc ==
    \/ \E r \in Reqs, b \in {PlainBook, AuthorBook} : AddStart(r, None, None, b)
    \/ \E r \in Reqs, s \in NotionStatuses : SchemaResponse(r, s)
    \/ \E r \in Reqs, s \in NotionStatuses : TitleResponse(r, s)
    \/ \E r \in Reqs, s \in NotionStatuses : AuthorTitleResponse(r, s)
    \/ \E r \in Reqs, s \in NotionStatuses : QueryResponse(r, s)
    \/ \E r \in Reqs, s \in NotionStatuses : CreateResponse(r, s)
    \/ \E r \in Reqs, s \in NotionStatuses : PageResponse(r, s, "p1")

SpecConc == InitConc /\ [][NextConc]_vars

---------------------------------------------------------------------------
(* The /add pipeline against a target database whose title property has the *)
(* name of the relation property.                                           *)

AuthorTitledProps ==
    {<<[name |-> AUTHOR_RELATION_PROPERTY_NAME, type |-> "title"],
       [name |-> "Genre", type |-> "rich_text"]>>}

InitRelation ==
    InitWith({None}, {0}, {Some("tok")}, {Some("db1")}, {None, Some("adb1")},
             AuthorTitledProps, AuthorProps, InitialRows)

SpecRelation == InitRelation /\ [][Next]_vars

---------------------------------------------------------------------------
(* /search against a catalog whose items carry identifier lists. *)

\* The longest identifier list of an item.
MaxIdentifiers == 3

IdentifierTypes == {None, Some("ISBN_13"), Some("ISBN_10"), Some("OTHER")}
IdentifierValues == {None, Some("x"), Some("y")}
Identifiers == [type : IdentifierTypes, identifier : IdentifierValues]
IdentifierLists == UNION {[1..n -> Identifiers] : n \in 0..MaxIdentifiers}
\* The responses: no item, one item without or with an identifier list, or
\* such an item followed by one without.
CatalogItems ==
    {<<>>, <<None>>} \cup {<<Some(l)>> : l \in IdentifierLists}
        \cup {<<Some(l), None>> : l \in [1..1 -> Identifiers]}

InitSearch ==
    InitWith({None}, {0}, {None}, {None}, {None}, {<<>>}, {<<>>}, {<<>>})

NextSearch ==
    \/ SearchStart("r1", None, None)
    \/ \E s \in CatalogStatuses : SearchResponse("r1", s, CatalogItems)

SpecSearch == InitSearch /\ [][NextSearch]_vars

---------------------------------------------------------------------------
(* _build_book_page_payload as a function: it is applied once to a book, a  *)
(* schema and a title property name drawn from the sets below, in a process *)
(* that serves no request.                                                  *)

\* The property names _build_book_page_payload writes to, beside the title.
TargetNames ==
    {"Summary", "Genre", "Tropes", "Publication Date", "ISBN", "Google Books ID",
     "Publisher", "Total Pages"}

\* A schema from a choice of type for every name; "absent" leaves the name out.
SchemaWith(types) == [n \in {m \in DOMAIN types : types[m] # "absent"} |-> types[n]]

\* The schemas with a title property "Title" and, for each target name, the
\* name absent, of the type its setter asks for, or of another type.
Schemas ==
    {SchemaWith([n \in TargetNames \cup {"Title"} |->
                    CASE n = "Title" -> "title"
                      [] n = "Summary" -> a
                      [] n = "Genre" -> b
                      [] n \in {"ISBN", "Google Books ID", "Publisher"} -> c
                      [] n = "Tropes" -> m
                      [] n = "Publication Date" -> d
                      [] OTHER -> k]) :
        a \in {"absent", "rich_text", "url"},
        b \in {"absent", "rich_text", "url"},
        c \in {"absent", "rich_text", "url"},
        m \in {"absent", "multi_select", "rich_text"},
        d \in {"absent", "date", "rich_text", "url"},
        k \in {"absent", "number", "rich_text"}}

\* The title property names handed to the builder.
TitleProps == {"Title", "Genre"}

\* A book with every field set.
FullBook ==
    [title |-> "Dune", authors |-> <<>>, isbn |-> Some("9780441013593"),
     published |-> Some(<<"1", "9", "6", "5">>), cover_url |-> Some("https://c/1"),
     google_books_id |-> Some("g1"), mainCategory |-> Some("Fiction"),
     categories |-> <<"Space", "", "Opera">>, page_count |-> Some(412),
     description |-> Some(<<"A", " ", "b", "o", "o", "k">>),
     publisher |-> Some("Ace"), notes |-> Some("n")]

\* A book with every field present and empty.
EmptyBook ==
    [title |-> "Dune", authors |-> <<>>, isbn |-> Some(""),
     published |-> Some(<<>>), cover_url |-> Some(""),
     google_books_id |-> Some(""), mainCategory |-> Some(""),
     categories |-> <<"">>, page_count |-> Some(0),
     description |-> Some(<<>>), publisher |-> Some(""), notes |-> Some("")]

\* The books with one optional field set.
OneFieldBooks ==
    {[PlainBook EXCEPT ![f] = FullBook[f]] :
        f \in {"isbn", "published", "cover_url", "google_books_id", "mainCategory",
               "categories", "page_count", "description", "publisher"}}

FieldBooks == {PlainBook, FullBook, EmptyBook} \cup OneFieldBooks

\* Published dates: a year, a year and month, a full date, and strings of
\* other forms, each also with white space before and after it.
Year == <<"2", "0", "2", "0">>
YearMonth == Year \o <<"-", "0", "5">>
YearMonthDay == YearMonth \o <<"-", "1", "7">>
OtherDates ==
    {<<"n", "o", "t", "-", "a", "-", "d", "a", "t", "e">>,
     <<"2", "0", "2">>,
     Year \o <<"1">>,
     Year \o <<"-", "5">>,
     Year \o <<"/", "0", "5">>,
     Year \o <<" ", "0", "5">>,
     YearMonth \o <<"-">>,
     YearMonth \o <<"-", "1", "x">>,
     YearMonthDay \o <<"T">>,
     <<"1", "7", "-", "0", "5", "-", "2", "0", "2", "0">>,
     <<>>}
LeadPads == {<<>>, <<" ">>}
TrailPads == {<<>>, <<" ">>, <<"\n">>}
DateStrings ==
    {l \o c \o t : l \in LeadPads, c \in {Year, YearMonth, YearMonthDay} \cup OtherDates,
                   t \in TrailPads}
DateBooks == {[PlainBook EXCEPT !.published = Some(d)] : d \in DateStrings} \cup {PlainBook}
\* The schemas with the title property and Publication Date of some type.
DateSchemas ==
    {SchemaWith([n \in {"Title", "Publication Date"} |->
                    IF n = "Title" THEN "title" ELSE d]) :
        d \in {"absent", "date", "rich_text", "url"}}

\* Descriptions: texts of lengths around the limit, each also with white
\* space before and after it.
TextOf(n) == [i \in 1..n |-> IF i % 3 = 0 THEN "c" ELSE IF i % 3 = 1 THEN "a" ELSE "b"]
DescriptionLengths ==
    {0, 1, SummaryKeep, SummaryLimit - 1, SummaryLimit, SummaryLimit + 1,
     SummaryLimit + 2, SummaryLimit + 200}
Descriptions ==
    {l \o TextOf(n) \o t : l \in LeadPads, n \in DescriptionLengths,
                            t \in TrailPads \cup {<<" ", "\n">>}}
DescriptionBooks ==
    {[PlainBook EXCEPT !.description = Some(d)] : d \in Descriptions}
\* The schemas with the title property and Summary of some type.
SummarySchemas ==
    {SchemaWith([n \in {"Title", "Summary"} |-> IF n = "Title" THEN "title" ELSE d]) :
        d \in {"absent", "rich_text", "url"}}

\* _build_book_page_payload(payload, schema, title_prop) is called, with its
\* arguments drawn from the given sets.
Build(r, books, schemas, title_props) ==
    /\ req[r].pc = "idle"
    /\ \E payload \in books, schema \in schemas, title_prop \in title_props :
           req' = [req EXCEPT ![r] =
                      [@ EXCEPT !.pc = "built", !.payload = payload,
                                !.schema = schema, !.title_prop = title_prop,
                                !.page_payload =
                                    build_book_page_payload(payload, schema, title_prop)]]
    /\ UNCHANGED <<config, created, now, rate_bucket, database_title_prop_cache,
                   database_schema_cache, remoteProps, authorRows, accepted, fetches>>

InitBuild ==
    InitWith({None}, {0}, {None}, {None}, {None}, {<<>>}, {<<>>}, {<<>>})

NextBuild ==
    \/ Build("r1", FieldBooks, Schemas, TitleProps)
    \/ Build("r1", DateBooks, DateSchemas, {"Title"})
    \/ Build("r1", DescriptionBooks, SummarySchemas, {"Title"})

SpecBuild == InitBuild /\ [][NextBuild]_vars

---------------------------------------------------------------------------
(* Properties of the guard and the limiter, checked under SpecRate. *)

\* The requests that reached the limiter: a guarded endpoint, not turned away
\* by the guard.
ReachedLimiter(q) == q.endpoint \in {"add", "search"} /\ q.status # 401

\* The subsequence of hits that lies in the window ending at t.
StillInWindow(hits, t) == SelectSeq(hits, LAMBDA x : x >= t - WindowSeconds)

\* C1: with a limit L > 0, for every client and every instant t the number of
\* admitted requests with timestamps in the trailing window [t - 60, t] is at
\* most L, and a request that reaches the limiter is admitted exactly when
\* fewer than L admitted timestamps of its client lay in the window.
C1_WindowNeverExceedsLimit ==
    RATE_LIMIT_PER_MIN > 0 =>
        /\ \A ip \in Ips, t \in 0..MaxNow :
               InWindow(accepted[ip], t) <= RATE_LIMIT_PER_MIN
        /\ \A r \in Reqs :
               ReachedLimiter(req[r]) =>
                   (req[r].status # 429 <=> req[r].seen < RATE_LIMIT_PER_MIN)

\* A client was turned away with a full window and admitted again later.
C1_Witness ==
    /\ RATE_LIMIT_PER_MIN = 2
    /\ req["r1"].status = 429
    /\ req["r1"].seen = 2
    /\ Len(accepted[req["r1"].ip]) >= 3

\* C2: a check that ends in 429 leaves of the client's list exactly the
\* timestamps still in the window and adds none, it changes no other
\* client's list and admits nothing; and no client's list ever holds more
\* than L entries.
C2_RejectedNotRecorded ==
    /\ [](\A ip \in DOMAIN rate_bucket :
              /\ RATE_LIMIT_PER_MIN > 0 => Len(rate_bucket[ip]) <= RATE_LIMIT_PER_MIN
              /\ RATE_LIMIT_PER_MIN <= 0 => rate_bucket[ip] = <<>>)
    /\ [][\A r \in Reqs :
             (req'[r] # req[r] /\ req'[r].status = 429) =>
                 /\ rate_bucket'[req'[r].ip]
                        = StillInWindow(Hits(req'[r].ip), now)
                 /\ \A ip \in DOMAIN rate_bucket' \ {req'[r].ip} :
                        ip \in DOMAIN rate_bucket /\ rate_bucket'[ip] = rate_bucket[ip]
                 /\ accepted' = accepted]_vars

\* A client is turned away, later than its admitted requests, with its list
\* full and the rejected call's time not in it.
C2_Witness ==
    /\ RATE_LIMIT_PER_MIN = 2
    /\ req["r1"].status = 429
    /\ req["r1"].t > 0
    /\ rate_bucket[req["r1"].ip] = <<0, 0>>

\* C3: with a limit L >= 1, a request that reaches the limiter more than 60
\* seconds after its client's latest admitted request is admitted.
C3_AdmittedAfterWindowDrains ==
    \A r \in Reqs :
        (/\ RATE_LIMIT_PER_MIN >= 1
         /\ ReachedLimiter(req[r])
         /\ req[r].prev # None
         /\ req[r].t - The(req[r].prev) > WindowSeconds)
        => req[r].status # 429

\* The limit is 2, the client filled its window at time 0, and its request
\* 61 seconds later is admitted.
C3_Witness ==
    /\ RATE_LIMIT_PER_MIN = 2
    /\ req["r1"].prev = Some(0)
    /\ req["r1"].t = 61
    /\ accepted[req["r1"].ip] = <<0, 0, 61>>
    /\ ReachedLimiter(req["r1"])
    /\ req["r1"].status # 429

\* A key is configured when the setting is present and not empty.
KeyConfigured == API_KEY # None /\ API_KEY # Some("")

\* C4: a request to a guarded endpoint is turned away with 401 exactly when
\* a key is configured and the supplied x-api-key header is absent or differs
\* from it.
C4_GuardExactMatch ==
    \A r \in Reqs :
        req[r].endpoint \in {"add", "search"} =>
            (req[r].status = 401 <=> (KeyConfigured /\ req[r].supplied # API_KEY))

\* A key is configured and a request without the header is turned away.
C4_Witness ==
    /\ API_KEY = Some("k1")
    /\ req["r1"].endpoint = "add"
    /\ req["r1"].supplied = None
    /\ req["r1"].status = 401

---------------------------------------------------------------------------
(* Properties of /add, checked under Spec. *)

Last(seq) == seq[Len(seq)]
\* The positions of a request's calls of the given kinds.
CallsOf(q, kinds) == {i \in DOMAIN q.calls : q.calls[i].kind \in kinds}
\* The positions of a request's metadata GETs issued by a function for a database.
GetsOf(q, by, db) ==
    {i \in CallsOf(q, {"GET"}) : q.calls[i].by = by /\ q.calls[i].arg = db}
NonSuccess(status) == status < 200 \/ status > 299

KeyFails(q) == KeyConfigured /\ q.supplied # API_KEY
Limited(q) == RATE_LIMIT_PER_MIN > 0 /\ q.seen >= RATE_LIMIT_PER_MIN
Misconfigured ==
    \/ NOTION_TOKEN = None \/ NOTION_TOKEN = Some("")
    \/ NOTION_DATABASE_ID = None \/ NOTION_DATABASE_ID = Some("")

HasSchema(q) ==
    /\ q.endpoint = "add"
    /\ \/ q.pc \in {"get_title", "get_author_title", "query", "create", "page_create"}
       \/ q.pc = "done" /\ q.status \in {200, 502}

\* C6: over requests handled one after the other, the schema of a database id
\* is fetched at most once; from then on the cache entry never changes and
\* every request works with it; and a fetch answered with an error caches
\* the empty schema.
C6_SchemaFetchedOnce ==
    /\ [](\A d \in DbIds : fetches[<<"schema", d>>] <= 1)
    /\ [](\A r \in Reqs :
              HasSchema(req[r]) =>
                  /\ The(NOTION_DATABASE_ID) \in DOMAIN database_schema_cache
                  /\ req[r].schema = database_schema_cache[The(NOTION_DATABASE_ID)])
    /\ [][\A d \in DOMAIN database_schema_cache :
              /\ d \in DOMAIN database_schema_cache'
              /\ database_schema_cache'[d] = database_schema_cache[d]]_vars
    /\ [][\A r \in Reqs :
              (/\ req[r].pc = "get_schema"
               /\ req'[r] # req[r]
               /\ req'[r].calls[Len(req[r].calls)].status >= 400)
              => database_schema_cache'[The(NOTION_DATABASE_ID)] = <<>>]_vars

\* The first schema fetch failed, the empty schema is cached although the
\* database has properties, and a later request finished without fetching it.
C6_Witness ==
    /\ NOTION_DATABASE_ID = Some("db1")
    /\ "db1" \in DOMAIN database_schema_cache
    /\ database_schema_cache["db1"] = <<>>
    /\ remoteProps["db1"] # <<>>
    /\ fetches[<<"schema", "db1">>] = 1
    /\ req["r1"].status = 200
    /\ GetsOf(req["r1"], "schema", "db1") = {}

\* C7 as stated: at most one title-property fetch per database id, whatever
\* the outcome of the first.
C7_TitleFetchedOnce == \A d \in DbIds : fetches[<<"title", d>>] <= 1

\* C7, amended: a title-property fetch is issued only for a database id with
\* no cache entry; a fetch answered with a title-typed property caches its
\* name; and a cache entry never changes.  So no fetch follows one that found
\* a title property, while a failed fetch, or one that found none, caches
\* nothing and the next call fetches again.
C7_TitleFetchedUntilFound ==
    /\ [][\A r \in Reqs :
              (req'[r] # req[r] /\ req'[r].pc \in {"get_title", "get_author_title"})
              => Last(req'[r].calls).arg \notin DOMAIN database_title_prop_cache']_vars
    /\ [](\A r \in Reqs : \A i \in CallsOf(req[r], {"GET"}) :
              LET c == req[r].calls[i]
              IN  (c.by = "title" /\ c.status = 200 /\ TitleOf(remoteProps[c.arg]) # None)
                  => /\ c.arg \in DOMAIN database_title_prop_cache
                     /\ Some(database_title_prop_cache[c.arg]) = TitleOf(remoteProps[c.arg]))
    /\ [][\A d \in DOMAIN database_title_prop_cache :
              /\ d \in DOMAIN database_title_prop_cache'
              /\ database_title_prop_cache'[d] = database_title_prop_cache[d]]_vars

\* The title property of the target database is cached after one fetch, and
\* a later request finished without fetching it.
C7_Witness ==
    /\ "db1" \in DOMAIN database_title_prop_cache
    /\ fetches[<<"title", "db1">>] = 1
    /\ req["r1"].status = 200
    /\ GetsOf(req["r1"], "title", "db1") = {}
    /\ "db1" \in DOMAIN database_schema_cache
    /\ database_schema_cache["db1"] # <<>>

\* The POST /add requests that got past the guard, the limiter and the
\* configuration check.
InPipeline(q) == q.endpoint = "add" /\ q.status \notin {401, 429, 500}

AuthorCallBound(q) ==
    Cardinality(CallsOf(q, {"QUERY", "CREATE"})) <= 2 * Len(q.payload.authors)
OnePageCreate(q) ==
    /\ Cardinality(CallsOf(q, {"PAGE"})) <= 1
    /\ q.pc = "done" => Cardinality(CallsOf(q, {"PAGE"})) = 1

\* C8 as stated: at most one metadata GET, at most 2 x |authors| author calls
\* and exactly one page-create POST.
C8_OneMetadataGet ==
    \A r \in Reqs :
        InPipeline(req[r]) =>
            /\ Cardinality(CallsOf(req[r], {"GET"})) <= 1
            /\ AuthorCallBound(req[r])
            /\ OnePageCreate(req[r])

\* C8, amended: at most one metadata GET for each of the three lookups (the
\* target's schema, the target's title property, the author database's title
\* property), each issued only when its cache has no entry and the last only
\* when an author database is configured and the book has authors; at most
\* 2 x |authors| author calls; exactly one page-create POST.
C8_OneGetPerLookup ==
    /\ [](\A r \in Reqs :
              InPipeline(req[r]) =>
                  /\ \A by \in {"schema", "title"}, d \in DbIds :
                         Cardinality(GetsOf(req[r], by, d)) <= 1
                  /\ \A i \in CallsOf(req[r], {"GET"}) :
                         \/ req[r].calls[i].arg = The(NOTION_DATABASE_ID)
                         \/ /\ req[r].calls[i].by = "title"
                            /\ Some(req[r].calls[i].arg) = NOTION_AUTHOR_DB_ID
                            /\ req[r].payload.authors # <<>>
                  /\ AuthorCallBound(req[r])
                  /\ OnePageCreate(req[r]))
    /\ [][\A r \in Reqs :
              (req'[r] # req[r] /\ req'[r].pc = "get_schema")
              => Last(req'[r].calls).arg \notin DOMAIN database_schema_cache']_vars
    /\ [][\A r \in Reqs :
              (req'[r] # req[r] /\ req'[r].pc \in {"get_title", "get_author_title"})
              => Last(req'[r].calls).arg \notin DOMAIN database_title_prop_cache']_vars

\* A first request with two new authors: three metadata GETs, two queries,
\* two creates and the page-create POST.
C8_Witness ==
    /\ req["r1"].status = 200
    /\ Cardinality(CallsOf(req["r1"], {"GET"})) = 3
    /\ Cardinality(CallsOf(req["r1"], {"QUERY", "CREATE"})) = 4
    /\ Cardinality(CallsOf(req["r1"], {"PAGE"})) = 1

\* The stage of the chain a call belongs to.
Stage(call) ==
    IF call.kind = "GET" THEN 1
    ELSE IF call.kind \in {"QUERY", "CREATE"} THEN 2
    ELSE 3

\* The position of a request's k-th author query.
QueryAt(q, k) ==
    CHOOSE i \in CallsOf(q, {"QUERY"}) :
        Cardinality({j \in CallsOf(q, {"QUERY"}) : j <= i}) = k

\* C9: the outbound calls of one POST /add are a chain.  A call is issued
\* only after the response to the one before; the metadata GETs come before
\* every author call and the page-create POST after all of them, last; the
\* queries take the names in input order; a create is issued right after the
\* query for the same name returned without error and without a match; and
\* the page-create POST of a request that queried at all follows the query
\* (and the create, if any) of the last name.
C9_SequentialChain ==
    \A r \in Reqs :
        LET q == req[r]
            c == q.calls
            queries == CallsOf(q, {"QUERY"})
        IN  InPipeline(q) =>
            /\ \A i \in DOMAIN c : c[i].status = 0 => (i = Len(c) /\ q.pc # "done")
            /\ \A i, j \in DOMAIN c : i < j => Stage(c[i]) <= Stage(c[j])
            /\ \A i \in CallsOf(q, {"PAGE"}) : i = Len(c)
            /\ Cardinality(queries) <= Len(q.payload.authors)
            /\ \A k \in 1..Cardinality(queries) :
                   c[QueryAt(q, k)].arg = q.payload.authors[k]
            /\ \A i \in CallsOf(q, {"CREATE"}) :
                   /\ i > 1
                   /\ c[i - 1].kind = "QUERY"
                   /\ c[i - 1].arg = c[i].arg
                   /\ c[i - 1].status = 200
                   /\ c[i - 1].result = <<>>
            /\ \A i \in queries :
                   (i < Len(c) /\ c[i].status = 200 /\ c[i].result = <<>>)
                   => c[i + 1].kind = "CREATE"
            /\ (CallsOf(q, {"PAGE"}) # {} /\ queries # {})
                   => Cardinality(queries) = Len(q.payload.authors)

\* A finished request for authors A and B, both new: three GETs, then query
\* and create for A, then query and create for B, then the page-create POST.
C9_Witness ==
    /\ req["r1"].status = 200
    /\ req["r1"].payload.authors = <<"A", "B">>
    /\ [i \in DOMAIN req["r1"].calls |-> req["r1"].calls[i].kind]
           = <<"GET", "GET", "GET", "QUERY", "CREATE", "QUERY", "CREATE", "PAGE">>
    /\ [i \in 4..7 |-> req["r1"].calls[i].arg] = [i \in 4..7 |-> IF i < 6 THEN "A" ELSE "B"]

\* The requests whose author loop ran to its end with every call answered 200.
AuthorsResolved(q) ==
    /\ InPipeline(q)
    /\ q.pc \in {"page_create", "done"}
    /\ NOTION_AUTHOR_DB_ID # None
    /\ q.payload.authors # <<>>
    /\ q.author_title # ""
    /\ \A i \in CallsOf(q, {"GET", "QUERY", "CREATE"}) : q.calls[i].status = 200

\* C10: when every call succeeds, the author loop returns one id per name in
\* input order: the first match of the name's query and no row created, or,
\* if the query matched nothing, the id of a row created with the author
\* database's title property set to the name; and that list is the relation
\* the page is created with.
C10_OneIdPerName ==
    \A r \in Reqs :
        LET q == req[r]
            c == q.calls
        IN  AuthorsResolved(q) =>
            /\ Len(q.author_ids) = Len(q.payload.authors)
            /\ Cardinality(CallsOf(q, {"QUERY"})) = Len(q.payload.authors)
            /\ \A k \in 1..Len(q.payload.authors) :
                   LET i == QueryAt(q, k)
                   IN  /\ c[i].arg = q.payload.authors[k]
                       /\ Some(c[i].prop) = TitleOf(remoteProps[The(NOTION_AUTHOR_DB_ID)])
                       /\ IF c[i].result # <<>>
                          THEN /\ q.author_ids[k] = c[i].result[1]
                               /\ c[i + 1].kind # "CREATE"
                          ELSE /\ c[i + 1].kind = "CREATE"
                               /\ c[i + 1].arg = q.payload.authors[k]
                               /\ c[i + 1].prop = c[i].prop
                               /\ q.author_ids[k] = c[i + 1].result[1]
                               /\ authorRows[q.author_ids[k]] = q.payload.authors[k]
            /\ q.page_payload.properties[AUTHOR_RELATION_PROPERTY_NAME]
                   = [relation |-> q.author_ids]

\* Names A and B, with two rows for A and none for B at the start: the
\* result is the first listed match for A, then the id of the row created
\* for B.
C10_Witness ==
    /\ req["r1"].status = 200
    /\ req["r1"].payload.authors = <<"A", "B">>
    /\ authorRows = <<"A", "A", "B">>
    /\ req["r1"].author_ids = <<2, 3>>
    /\ req["r1"].calls[Len(req["r1"].calls) - 3].result = <<2, 1>>
    /\ req["r1"].calls[Len(req["r1"].calls) - 1].kind = "CREATE"

\* The requests whose author loop ran to its end.
AuthorLoopDone(q) ==
    /\ InPipeline(q)
    /\ q.pc \in {"page_create", "done"}
    /\ CallsOf(q, {"QUERY"}) # {}

\* What the k-th name of a request contributed: the first match of its query,
\* or the id of the row created for it, or nothing when its query or its
\* create was answered with an error.
Contribution(q, k) ==
    LET i == QueryAt(q, k)
        c == q.calls
    IN  IF c[i].status >= 400 THEN <<>>
        ELSE IF c[i].result # <<>> THEN <<c[i].result[1]>>
        ELSE IF c[i + 1].status >= 400 THEN <<>>
        ELSE <<c[i + 1].result[1]>>

\* The contributions of the first k names, in input order.
RECURSIVE Collected(_, _)
Collected(q, k) == IF k = 0 THEN <<>> ELSE Collected(q, k - 1) \o Contribution(q, k)

\* C11: a failed author query or create skips only its own name.  Once the
\* loop is over every name was queried, in input order, whatever failed
\* before it; the ids returned are the ids of the names that succeeded, in
\* input order; the page-create POST is issued; and the request ends 502 or
\* 200 by the status of that POST alone.
C11_FailureSkipsOneName ==
    \A r \in Reqs :
        LET q == req[r]
            n == Len(q.payload.authors)
        IN  AuthorLoopDone(q) =>
            /\ Cardinality(CallsOf(q, {"QUERY"})) = n
            /\ \A k \in 1..n : q.calls[QueryAt(q, k)].arg = q.payload.authors[k]
            /\ q.author_ids = Collected(q, n)
            /\ Len(q.author_ids) <= n
            /\ Last(q.calls).kind = "PAGE"
            /\ q.pc = "done" =>
                   q.status = IF Last(q.calls).status >= 400 THEN 502 ELSE 200

\* Authors A and B: the query for A fails, B is still looked up and created,
\* and the request ends 200 with the one id.
C11_Witness ==
    /\ req["r1"].status = 200
    /\ req["r1"].payload.authors = <<"A", "B">>
    /\ Cardinality(CallsOf(req["r1"], {"QUERY"})) = 2
    /\ req["r1"].calls[QueryAt(req["r1"], 1)].status = 500
    /\ Last(req["r1"].calls).kind = "PAGE"
    /\ Len(req["r1"].author_ids) = 1
    /\ authorRows[req["r1"].author_ids[1]] = "B"
    /\ req["r1"].page_payload.properties[AUTHOR_RELATION_PROPERTY_NAME]
           = [relation |-> req["r1"].author_ids]

\* The request's own schema fetch was answered with an error.
SchemaFetchFailed(q) ==
    \E i \in CallsOf(q, {"GET"}) : q.calls[i].by = "schema" /\ q.calls[i].status >= 400

\* The title property name add_book works with, given the outcome of the
\* request's own title fetch or else the cache.
ExpectedTitleProp(q) ==
    LET db == The(NOTION_DATABASE_ID)
        gets == GetsOf(q, "title", db)
    IN  IF gets = {}
        THEN database_title_prop_cache[db]
        ELSE IF \E i \in gets : q.calls[i].status >= 400 THEN DefaultTitleProperty
        ELSE IF TitleOf(remoteProps[db]) = None THEN DefaultTitleProperty
        ELSE The(TitleOf(remoteProps[db]))

\* C12: a schema fetch answered with an error does not end the request.  The
\* request goes on with the empty schema; its page-create POST is issued and
\* carries the title under the resolved title property, or under "Name" when
\* that cannot be resolved, and beside the author relation no other property;
\* and the request ends 200 when the POST is answered without error.
C12_SchemaFailureDegrades ==
    \A r \in Reqs :
        LET q == req[r]
            props == q.page_payload.properties
        IN  (InPipeline(q) /\ SchemaFetchFailed(q)) =>
            /\ q.pc # "get_schema" => q.schema = <<>>
            /\ q.pc = "done" => Last(q.calls).kind = "PAGE"
            /\ q.pc \in {"page_create", "done"} =>
                   /\ Last(q.calls).kind = "PAGE"
                   /\ q.title_prop = ExpectedTitleProp(q)
                   /\ q.title_prop \in DOMAIN props
                   /\ props[q.title_prop] = [title |-> q.payload.title]
                   /\ DOMAIN props \subseteq {q.title_prop, AUTHOR_RELATION_PROPERTY_NAME}
            /\ (q.pc = "done" /\ Last(q.calls).status = 200) => q.status = 200

\* The schema fetch and the title fetch both fail for a book with a main
\* category, against a database that has a Genre property: the page is
\* created with the title under "Name" alone.
C12_Witness ==
    /\ req["r1"].status = 200
    /\ SchemaFetchFailed(req["r1"])
    /\ req["r1"].payload.mainCategory = Some("Fiction")
    /\ "Genre" \in DOMAIN SchemaOf(remoteProps["db1"])
    /\ req["r1"].title_prop = "Name"
    /\ DOMAIN req["r1"].page_payload.properties = {"Name"}

\* C13: with requests handled one after the other and queries answered from
\* the rows the author database holds, the service creates at most one row
\* for a name, and none for a name that has a row: no name is created twice,
\* and a created name has exactly one row.
C13_OneRowPerName ==
    /\ \A i, j \in DOMAIN created : i # j => created[i] # created[j]
    /\ \A i \in DOMAIN created : Cardinality(Matches(created[i])) = 1

\* A request names A twice: the create after the first query fails, the
\* second query still finds no row, and its create makes the one row for A.
C13_Witness ==
    /\ req["r1"].status = 200
    /\ req["r1"].payload.authors = <<"A", "A">>
    /\ created = <<"A">>
    /\ Cardinality(CallsOf(req["r1"], {"CREATE"})) = 2
    /\ req["r1"].calls[QueryAt(req["r1"], 1) + 1].status = 500
    /\ req["r1"].author_ids = <<1>>

---------------------------------------------------------------------------
(* Properties of interleaved requests, checked under SpecConc. *)

\* C14: whatever the interleaving, every schema-cache entry is the schema the
\* database service holds for that database id or the empty schema, every
\* title-cache entry is the name of that database's title-typed property,
\* both caches hold entries for configured database ids only, and no
\* client's list of hits is longer than the limit.
C14_LocalStateSound ==
    /\ \A d \in DOMAIN database_schema_cache :
           /\ Some(d) = NOTION_DATABASE_ID
           /\ \/ database_schema_cache[d] = <<>>
              \/ database_schema_cache[d] = SchemaOf(remoteProps[d])
    /\ \A d \in DOMAIN database_title_prop_cache :
           /\ Some(d) \in {NOTION_DATABASE_ID, NOTION_AUTHOR_DB_ID}
           /\ Some(database_title_prop_cache[d]) = TitleOf(remoteProps[d])
    /\ \A ip \in DOMAIN rate_bucket :
           RATE_LIMIT_PER_MIN > 0 => Len(rate_bucket[ip]) <= RATE_LIMIT_PER_MIN

\* Two requests overlapped: the schema of the target database was fetched
\* twice, and two rows were created for the author A.
C14_Witness ==
    /\ fetches[<<"schema", "db1">>] = 2
    /\ created = <<"A", "A">>
    /\ authorRows = <<"A", "A">>
    /\ \A r \in Reqs : req[r].status = 200

---------------------------------------------------------------------------
(* Properties of _build_book_page_payload, checked under SpecBuild. *)

\* The type tags a target name must have in the schema for its field to be
\* written.
ExpectedTypes(n) ==
    CASE n \in {"Summary", "Genre", "ISBN", "Google Books ID", "Publisher"} -> {"rich_text"}
      [] n = "Tropes" -> {"multi_select"}
      [] n = "Publication Date" -> {"date", "rich_text"}
      [] n = "Total Pages" -> {"number"}

\* The requests that hold a built payload.
Built(q) == q.pc = "built"

\* C15: the payload holds the title property and target names only; a target
\* name other than the title property is in it only if the schema has the
\* name with the type tag its field asks for; Genre, when it is not the title
\* property, is in it exactly when the book has a main category and the
\* schema types Genre rich_text; and a book with only a title, against a
\* schema with only the title property, gives one property and no cover.
C15_SchemaDrivenFields ==
    \A r \in Reqs :
        LET q == req[r]
            props == q.page_payload.properties
        IN  Built(q) =>
            /\ q.title_prop \in DOMAIN props
            /\ DOMAIN props \subseteq TargetNames \cup {q.title_prop}
            /\ \A n \in DOMAIN props \ {q.title_prop} :
                   /\ n \in DOMAIN q.schema
                   /\ q.schema[n] \in ExpectedTypes(n)
            /\ q.title_prop # "Genre" =>
                   ("Genre" \in DOMAIN props
                       <=> /\ Truthy(q.payload.mainCategory)
                           /\ Get(q.schema, "Genre") = Some("rich_text"))
            /\ (q.payload = PlainBook /\ DOMAIN q.schema = {q.title_prop}) =>
                   /\ DOMAIN props = {q.title_prop}
                   /\ props[q.title_prop] = [title |-> "Dune"]
                   /\ q.page_payload.cover = None

\* A book with every field set, against a schema that types Genre rich_text
\* and Summary url and lacks ISBN: Genre is written, Summary and ISBN are not.
C15_Witness ==
    /\ Built(req["r1"])
    /\ req["r1"].payload = FullBook
    /\ req["r1"].title_prop = "Title"
    /\ Get(req["r1"].schema, "Summary") = Some("url")
    /\ "ISBN" \notin DOMAIN req["r1"].schema
    /\ "Genre" \in DOMAIN req["r1"].page_payload.properties
    /\ "Total Pages" \in DOMAIN req["r1"].page_payload.properties
    /\ "Summary" \notin DOMAIN req["r1"].page_payload.properties
    /\ "ISBN" \notin DOMAIN req["r1"].page_payload.properties
    /\ req["r1"].page_payload.cover = Some("https://c/1")

PublicationDate == "Publication Date"
IsDigits(s, from, to) == \A i \in from..to : s[i] \in Digits
\* The forms YYYY, YYYY-MM and YYYY-MM-DD.
IsYear(s) == Len(s) = 4 /\ IsDigits(s, 1, 4)
IsYearMonth(s) == Len(s) = 7 /\ IsDigits(s, 1, 4) /\ s[5] = "-" /\ IsDigits(s, 6, 7)
IsFullDate(s) ==
    /\ Len(s) = 10 /\ IsDigits(s, 1, 4) /\ s[5] = "-" /\ IsDigits(s, 6, 7)
    /\ s[8] = "-" /\ IsDigits(s, 9, 10)
FirstDay == <<"-", "0", "1">>

\* What Publication Date holds for a published string s read as the date v,
\* under a schema that types it ty.
DateOutcome(props, ty, s, v) ==
    IF s = <<>> THEN PublicationDate \notin DOMAIN props
    ELSE IF ty = Some("date")
    THEN IF IsYear(v)
         THEN /\ PublicationDate \in DOMAIN props
              /\ props[PublicationDate] = [date |-> v \o FirstDay \o FirstDay]
         ELSE IF IsYearMonth(v)
         THEN /\ PublicationDate \in DOMAIN props
              /\ props[PublicationDate] = [date |-> v \o FirstDay]
         ELSE IF IsFullDate(v)
         THEN /\ PublicationDate \in DOMAIN props
              /\ props[PublicationDate] = [date |-> v]
         ELSE PublicationDate \notin DOMAIN props
    ELSE IF ty = Some("rich_text")
    THEN /\ PublicationDate \in DOMAIN props
         /\ props[PublicationDate] = [rich_text |-> s]
    ELSE PublicationDate \notin DOMAIN props

\* The requests that hold a payload built for a title property other than
\* Publication Date.
BuiltDate(q) == Built(q) /\ q.title_prop # PublicationDate

\* C16 as stated: the published string itself is matched against the three
\* forms, and a string of any other form leaves the date unset.
C16_RawDateForms ==
    \A r \in Reqs :
        LET q == req[r]
        IN  (BuiltDate(q) /\ q.payload.published # None) =>
                DateOutcome(q.page_payload.properties, Get(q.schema, PublicationDate),
                            The(q.payload.published), The(q.payload.published))

\* C16, amended: under a schema that types Publication Date date, the
\* published string with the white space around it removed is matched
\* against the three forms: YYYY gives YYYY-01-01, YYYY-MM gives YYYY-MM-01,
\* YYYY-MM-DD gives itself, and any other form leaves the property unset.
\* Under a schema that types it rich_text the string is written as it came.
\* Under any other schema, and for an absent or empty string, the property
\* is unset.  The property never holds a date and a rich text together.
C16_TrimmedDateForms ==
    \A r \in Reqs :
        LET q == req[r]
            props == q.page_payload.properties
        IN  BuiltDate(q) =>
            /\ q.payload.published = None => PublicationDate \notin DOMAIN props
            /\ q.payload.published # None =>
                   DateOutcome(props, Get(q.schema, PublicationDate),
                               The(q.payload.published), Strip(The(q.payload.published)))
            /\ PublicationDate \in DOMAIN props =>
                   /\ Get(q.schema, PublicationDate) \in {Some("date"), Some("rich_text")}
                   /\ DOMAIN props[PublicationDate]
                          = {The(Get(q.schema, PublicationDate))}

\* A year with a blank before it, under a schema that types Publication Date
\* date: the date written is the first of January of that year.
C16_Witness ==
    /\ Built(req["r1"])
    /\ req["r1"].payload.published = Some(<<" ">> \o Year)
    /\ Get(req["r1"].schema, PublicationDate) = Some("date")
    /\ PublicationDate \in DOMAIN req["r1"].page_payload.properties
    /\ req["r1"].page_payload.properties[PublicationDate]
           = [date |-> <<"2", "0", "2", "0", "-", "0", "1", "-", "0", "1">>]

Ellipsis == <<".", ".", ".">>

\* The requests that hold a payload built, for a title property other than
\* Summary, from a book with a description.
BuiltSummary(q) ==
    Built(q) /\ q.title_prop # "Summary" /\ q.payload.description # None

\* The Summary text for a description read as the text d: d itself up to
\* 1800 characters, else its first 1797 characters and the ellipsis.
CutOf(d) ==
    IF Len(d) <= SummaryLimit THEN d ELSE SubSeq(d, 1, SummaryKeep) \o Ellipsis

\* C17 as stated: the lengths are those of the description as it came.
C17_RawLengthCut ==
    \A r \in Reqs :
        LET q == req[r]
            props == q.page_payload.properties
        IN  (BuiltSummary(q) /\ "Summary" \in DOMAIN props) =>
            /\ Len(props["Summary"].rich_text) <= SummaryLimit
            /\ props["Summary"].rich_text = CutOf(The(q.payload.description))

\* C17, amended: the description is first trimmed of the white space around
\* it.  The Summary text is written exactly when the schema types Summary
\* rich_text and the trimmed description is not empty; it is at most 1800
\* characters long; a trimmed description of at most 1800 characters is
\* written whole, and a longer one as its first 1797 characters followed by
\* the three-character ellipsis, 1800 in all.
C17_TrimmedLengthCut ==
    \A r \in Reqs :
        LET q == req[r]
            props == q.page_payload.properties
            d == Strip(The(q.payload.description))
        IN  BuiltSummary(q) =>
            /\ "Summary" \in DOMAIN props
                   <=> (Get(q.schema, "Summary") = Some("rich_text") /\ d # <<>>)
            /\ "Summary" \in DOMAIN props =>
                   /\ Len(props["Summary"].rich_text) <= SummaryLimit
                   /\ props["Summary"].rich_text = CutOf(d)
                   /\ Len(d) > SummaryLimit =>
                          Len(props["Summary"].rich_text) = SummaryLimit

\* A description of 1801 characters is written as 1800: its first 1797 and
\* the ellipsis.
C17_Witness ==
    /\ Built(req["r1"])
    /\ req["r1"].payload.description = Some(TextOf(SummaryLimit + 1))
    /\ "Summary" \in DOMAIN req["r1"].page_payload.properties
    /\ Len(req["r1"].page_payload.properties["Summary"].rich_text) = SummaryLimit
    /\ SubSeq(req["r1"].page_payload.properties["Summary"].rich_text,
              SummaryKeep, SummaryLimit) = <<"c">> \o Ellipsis

---------------------------------------------------------------------------
(* Properties of _best_isbn, checked under SpecSearch. *)

\* The positions of the entries of a type.
OfType(l, kind) == {i \in DOMAIN l : l[i].type = Some(kind)}
\* The least of a set of positions.
Least(S) == CHOOSE i \in S : \A j \in S : i <= j

\* The isbn the claim gives for an identifier list.
PreferredIsbn(l) ==
    IF l = <<>> THEN None
    ELSE IF OfType(l, "ISBN_13") # {} THEN l[Least(OfType(l, "ISBN_13"))].identifier
    ELSE IF OfType(l, "ISBN_10") # {} THEN l[Least(OfType(l, "ISBN_10"))].identifier
    ELSE l[1].identifier

\* C18: for every item of a search response, the isbn of its result is the
\* identifier of the first ISBN_13 entry if the list has one, wherever it
\* stands and whether or not an ISBN_10 entry is there too; else that of the
\* first ISBN_10 entry; else that of the first entry; and none for the empty
\* or absent list.
C18_IsbnPreference ==
    \A r \in Reqs :
        LET q == req[r]
        IN  (q.endpoint = "search" /\ q.status = 200) =>
            LET items == Last(q.calls).result
            IN  /\ Len(q.results) = Len(items)
                /\ \A i \in DOMAIN items :
                       q.results[i].isbn =
                           PreferredIsbn(IF items[i] = None THEN <<>> ELSE The(items[i]))

\* An item lists an untagged entry, an ISBN_10 and then an ISBN_13: the
\* result is the ISBN_13 entry's identifier.
C18_Witness ==
    /\ req["r1"].endpoint = "search"
    /\ req["r1"].status = 200
    /\ Last(req["r1"].calls).result
           = <<Some(<<[type |-> None, identifier |-> Some("x")],
                      [type |-> Some("ISBN_10"), identifier |-> Some("x")],
                      [type |-> Some("ISBN_13"), identifier |-> Some("y")]>>)>>
    /\ req["r1"].results = <<[isbn |-> Some("y")]>>

---------------------------------------------------------------------------
(* The title of the created page, checked under SpecRelation. *)

\* The requests whose page-create POST went out.
PageIssued(q) == InPipeline(q) /\ q.pc \in {"page_create", "done"}

\* C19: the payload of every page-create POST holds, under the title
\* property name the request resolved, the title value with the book's title.
C19_TitleSurvivesRelation ==
    \A r \in Reqs :
        LET q == req[r]
            props == q.page_payload.properties
        IN  PageIssued(q) =>
            /\ q.title_prop \in DOMAIN props
            /\ DOMAIN props[q.title_prop] = {"title"}
            /\ props[q.title_prop].title = q.payload.title

\* The title property of the target database is named Author: the page is
\* created with the relation under that name and without its title.
C19_Witness ==
    /\ req["r1"].status = 200
    /\ req["r1"].title_prop = AUTHOR_RELATION_PROPERTY_NAME
    /\ req["r1"].author_ids # <<>>
    /\ DOMAIN req["r1"].page_payload.properties = {AUTHOR_RELATION_PROPERTY_NAME}
    /\ req["r1"].page_payload.properties[AUTHOR_RELATION_PROPERTY_NAME]
           = [relation |-> req["r1"].author_ids]

---------------------------------------------------------------------------
(* The order of the guard and the limiter, checked under SpecRate. *)

\* The requests that arrive in a step: the slot takes a new request.
Arrives(r) == req[r].pc \in {"idle", "done"} /\ req'[r] # req[r]

\* C20: a request turned away with 401 changes no client's list of hits and
\* admits nothing, also when its client's window is full; a request to
\* /search or /add that passes the guard and the enabled limiter has its time
\* appended to its client's list in the step it arrives, whether it then ends
\* 500 or waits for the catalog; the catalog's answer, 502 included, changes
\* no list; and /health ends 200 and changes no list.
C20_GuardBeforeLimiter ==
    /\ [](\A r \in Reqs : req[r].status = 429 => ~KeyFails(req[r]))
    /\ [][\A r \in Reqs :
             (Arrives(r) /\ req'[r].status = 401) =>
                 (rate_bucket' = rate_bucket /\ accepted' = accepted)]_vars
    /\ [][\A r \in Reqs :
             (/\ Arrives(r)
              /\ req'[r].endpoint \in {"add", "search"}
              /\ req'[r].status \notin {401, 429}
              /\ RATE_LIMIT_PER_MIN > 0) =>
                 /\ req'[r].ip \in DOMAIN rate_bucket'
                 /\ rate_bucket'[req'[r].ip] # <<>>
                 /\ Last(rate_bucket'[req'[r].ip]) = now
                 /\ accepted'[req'[r].ip] = Append(accepted[req'[r].ip], now)]_vars
    /\ [][\A r \in Reqs :
             req[r].pc = "catalog" =>
                 (rate_bucket' = rate_bucket /\ accepted' = accepted)]_vars
    /\ [][\A r \in Reqs :
             (Arrives(r) /\ req'[r].endpoint = "health") =>
                 /\ req'[r].status = 200
                 /\ rate_bucket' = rate_bucket
                 /\ accepted' = accepted]_vars

\* A request without the key is turned away with 401 while its client's
\* window is full, and the list still holds the two admitted hits.
C20_Witness ==
    /\ API_KEY = Some("k1")
    /\ RATE_LIMIT_PER_MIN = 2
    /\ req["r1"].status = 401
    /\ req["r1"].seen = 2
    /\ req["r1"].t = 60
    /\ rate_bucket[req["r1"].ip] = <<0, 30>>

====
